---- MODULE Spec2Model ----
(***************************************************************************)
(* Model of sage_setup/autogen/pari/generator.py: the PariFunctionGenerator *)
(* that reads pari.desc, filters the described functions, routes each one  *)
(* to auto_gen.pxi (class gen) or auto_instance.pxi (class PariInstance),  *)
(* writes one method per function and commits both files by renaming.      *)
(*                                                                         *)
(* Strings that the code inspects character by character (function names,  *)
(* prototypes) are sequences: a function name is the sequence of its       *)
(* character codes, a prototype the sequence of its one-character codes.   *)
(*                                                                         *)
(* The module also models two methods of sage/knots/knot.py, dt_code and   *)
(* connected_sum, on knots given by braids (KnotSpec).                     *)
(***************************************************************************)
EXTENDS Integers, Sequences, FiniteSets, TLC

VARIABLES
    pc,             \* position of __call__ (see the actions below)
    store,          \* the dict that read_pari_desc() returns, as the set of its values
    D,              \* the sorted descriptor list of line 235
    idx,            \* 1-based position of the for loop of line 243 in D
    gen_tmp,        \* content of auto_gen.pxi.tmp
    instance_tmp,   \* content of auto_instance.pxi.tmp
    gen_open,       \* self.gen_file is an open file object
    instance_open,  \* self.instance_file is an open file object
    gen_canon,      \* content of auto_gen.pxi
    instance_canon, \* content of auto_instance.pxi
    gen_before,     \* content of auto_gen.pxi when the current run started
    instance_before,\* content of auto_instance.pxi when the current run started
    stdout,         \* what the run wrote to sys.stdout, one entry per write
    parse_calls,    \* the initial_args of each parse_prototype call of the last handle_pari_function
    raised,         \* the statement whose exception ended the run, or "none"
    runs,           \* number of runs of __call__ started so far
    f_arg,          \* the keyword arguments of a direct can_handle_function call
    f_res,          \* its result
    K1,             \* the knot a Knot method is called on: its braid's strands and Tietze word
    K2,             \* the other knot of connected_sum
    kpc,            \* position of the Knot method that is running
    label,          \* dt_code: the 2N label slots, indexed from 0
    string,         \* dt_code: the strand position being followed
    next_label,     \* dt_code: the next label to hand out
    type1,          \* dt_code: 0 before the first crossing, then +1 / -1 in turn
    crossing,       \* dt_code: index (from 0) where the search for the next crossing starts
    code,           \* dt_code: the returned list
    result          \* connected_sum: the braid handed to Knot()

generator_vars == << pc, store, D, idx, gen_tmp, instance_tmp, gen_open, instance_open,
                     gen_canon, instance_canon, gen_before, instance_before, stdout,
                     parse_calls, raised, runs, f_arg, f_res >>

knot_vars == << K1, K2, kpc, label, string, next_label, type1, crossing, code, result >>

vars == << generator_vars, knot_vars >>

(***************************************************************************)
(* Bounds of the model.                                                    *)
(***************************************************************************)
MaxDesc == 3        \* most descriptors in one descriptor store
MaxRuns == 2        \* most runs of __call__ in one behaviour
MaxStrands == 3     \* most strands of the braid of an input knot
MaxCrossings == 4   \* most crossings of the braid word that dt_code is called on
MaxSumCrossings == 2 \* most crossings of each braid word given to connected_sum

(***************************************************************************)
(* Character codes and the function names used as inputs.                  *)
(***************************************************************************)
n_O           == << 79 >>
n_alias       == << 97, 108, 105, 97, 115 >>
n_listcreate  == << 108, 105, 115, 116, 99, 114, 101, 97, 116, 101 >>
n_bnfinit     == << 98, 110, 102, 105, 110, 105, 116 >>
n__bnfinit    == << 95, 98, 110, 102, 105, 110, 105, 116 >>
n_bang        == << 33, 95 >>
n_if          == << 105, 102 >>
n_setrand     == << 115, 101, 116, 114, 97, 110, 100 >>
n_ellmodulareqn == << 101, 108, 108, 109, 111, 100, 117, 108, 97, 114, 101, 113, 110 >>
n_getrand     == << 103, 101, 116, 114, 97, 110, 100 >>
n_apply       == << 97, 112, 112, 108, 121 >>
n_Pi          == << 80, 105 >>
n_Str         == << 83, 116, 114 >>
n_a1          == << 97, 49 >>
n_1a          == << 49, 97 >>
n_a_b         == << 97, 95, 98 >>
n_aminus      == << 97, 45, 98 >>
n_empty       == << >>
n_eacute      == << 233 >>
n_allocatemem == << 97, 108, 108, 111, 99, 97, 116, 101, 109, 101, 109 >>

(***************************************************************************)
(* function_re and function_blacklist.                                     *)
(***************************************************************************)
IsLetter(c) == (c >= 65 /\ c <= 90) \/ (c >= 97 /\ c <= 122)
IsDigit(c)  == c >= 48 /\ c <= 57
IsWordChar(c) == IsLetter(c) \/ IsDigit(c) \/ c = 95

\* re.match of ^[A-Za-z][A-Za-z0-9_]*$ : in Python "$" matches at the end of
\* the string and also just before a newline that ends the string.
function_re_match(s) ==
    /\ Len(s) >= 1
    /\ IsLetter(s[1])
    /\ LET last == IF Len(s) >= 2 /\ s[Len(s)] = 10 THEN Len(s) - 1 ELSE Len(s)
       IN  \A i \in 2..last : IsWordChar(s[i])

function_blacklist == { n_O, n_alias, n_listcreate }

\* self.declared = read_decl(): the C names declared in decl.pxi / declinl.pxi
declared == { "bnfinit0", "ellmodulareqn", "setrand", "getrand", "apply0",
              "alias0", "ifpari", "mppi", "allocatemem0", "Str" }

\* kwds.get(k, default), and a keyword parameter with a default value
KwGet(d, k, default) == IF k \in DOMAIN d THEN d[k] ELSE default

\* the test without the blacklist of line 84
can_handle_function_noblacklist(v) ==
    LET function == v.function
        cname == KwGet(v, "cname", "")
        cls == KwGet(v, "class", "unknown")
        sec == KwGet(v, "section", "unknown")
    IN  IF ~ function_re_match(function) THEN FALSE
        ELSE IF cname \notin declared THEN FALSE
        ELSE IF cls \notin { "basic", "highlevel" } THEN FALSE
        ELSE IF sec = "programming/control" THEN FALSE
        ELSE TRUE

can_handle_function(v) ==
    LET function == v.function
        cname == KwGet(v, "cname", "")
        cls == KwGet(v, "class", "unknown")
        sec == KwGet(v, "section", "unknown")
    IN  IF function \in function_blacklist THEN FALSE
        ELSE IF ~ function_re_match(function) THEN FALSE
        ELSE IF cname \notin declared THEN FALSE
        ELSE IF cls \notin { "basic", "highlevel" } THEN FALSE
        ELSE IF sec = "programming/control" THEN FALSE
        ELSE TRUE

(***************************************************************************)
(* sage_setup.autogen.pari.args and .parser are not among the sources; the *)
(* argument classes and parse_prototype follow their documented contract   *)
(* and the doctests of handle_pari_function (lines 118-170).               *)
(***************************************************************************)
\* prototype codes of the arguments parse_prototype supports
ArgCodes == { "G", "L", "n", "s", "p" }
\* prototype codes of the return types other than GEN
RetCodes == { "v" }

ArgKind(c) == CASE c = "G" -> "GEN"
                [] c = "L" -> "long"
                [] c = "n" -> "var"
                [] c = "s" -> "string"
                [] c = "p" -> "prec"

NoDefault == << "<no default>" >>

\* PariInstanceArgument(): the "self" argument of a PariInstance method
PariInstanceArgument ==
    [ kind |-> "self", name |-> "self", default |-> NoDefault, index |-> 0,
      deprecated |-> FALSE ]

\* isinstance(a, PariArgumentGEN)
IsPariArgumentGEN(a) == a.kind = "GEN"

\* the argument names whose argument is flagged deprecated
DeprecatedArgNames == { "s" }

\* the argument t(names, default, index=len(args)) for code c; k is the
\* position of the names iterator
NewArg(c, names, k, default, index) ==
    LET name == IF c = "p" THEN "precision"
                ELSE IF k <= Len(names) THEN names[k] ELSE "_arg"
    IN  [ kind |-> ArgKind(c),
          name |-> name,
          default |-> IF c = "p" THEN << "0" >> ELSE default,
          index |-> index,
          deprecated |-> name \in DeprecatedArgNames ]

\* the characters of a default value, up to the comma that ends it
RECURSIVE ReadDefault(_, _, _)
ReadDefault(proto, n, acc) ==
    IF n > Len(proto) THEN [ ok |-> FALSE, val |-> acc, next |-> n ]
    ELSE IF proto[n] = "," THEN [ ok |-> TRUE, val |-> acc, next |-> n + 1 ]
    ELSE ReadDefault(proto, n + 1, Append(acc, proto[n]))

RECURSIVE ParseArgs(_, _, _, _, _)
ParseArgs(proto, n, names, k, args) ==
    IF n > Len(proto) THEN [ ok |-> TRUE, args |-> args ]
    ELSE IF proto[n] = "," THEN ParseArgs(proto, n + 1, names, k, args)
    ELSE IF proto[n] = "D" THEN
        IF n + 1 > Len(proto) THEN [ ok |-> FALSE, args |-> args ]
        ELSE IF proto[n + 1] \in ArgCodes THEN
            ParseArgs(proto, n + 2, names, IF proto[n + 1] = "p" THEN k ELSE k + 1,
                      Append(args, NewArg(proto[n + 1], names, k, << >>, Len(args))))
        ELSE LET d == ReadDefault(proto, n + 1, << >>)
             IN  IF ~ d.ok \/ d.next > Len(proto) \/ proto[d.next] \notin ArgCodes
                 THEN [ ok |-> FALSE, args |-> args ]
                 ELSE ParseArgs(proto, d.next + 1, names,
                                IF proto[d.next] = "p" THEN k ELSE k + 1,
                                Append(args, NewArg(proto[d.next], names, k, d.val, Len(args))))
    ELSE IF proto[n] \in ArgCodes THEN
        ParseArgs(proto, n + 1, names, IF proto[n] = "p" THEN k ELSE k + 1,
                  Append(args, NewArg(proto[n], names, k, NoDefault, Len(args))))
    ELSE [ ok |-> FALSE, args |-> args ]     \* unsupported code: NotImplementedError

\* parse_prototype(proto, help, initial_args): ok = FALSE stands for the
\* NotImplementedError of an unsupported prototype code; names are the
\* argument names that the parser reads off the help string
parse_prototype(proto, names, initial_args) ==
    LET hasret == Len(proto) >= 1 /\ proto[1] \in RetCodes
        ret == IF hasret THEN "void" ELSE "GEN"
        r == ParseArgs(proto, IF hasret THEN 2 ELSE 1, names, 1, initial_args)
    IN  [ ok |-> r.ok, args |-> r.args, ret |-> ret ]

\* a.prototype_code(): the parameter in the "def" line
prototype_code(a) ==
    [ ctype |-> IF a.kind \in { "long", "prec" } THEN "long" ELSE "",
      name |-> a.name,
      default |-> IF a.default = NoDefault THEN "" 
                  ELSE IF a.kind \in { "long", "prec" } THEN
                        (IF a.default = << >> THEN "0" ELSE a.default[1])
                  ELSE "None" ]

\* a.call_code(): the expression passed to the C function
call_code(a) == IF a.kind \in { "GEN", "var", "string" } THEN "_" \o a.name ELSE a.name

Stmt(op, a, args) == [ op |-> op, a |-> a, args |-> args ]

\* a.deprecation_warning_code(function)
deprecation_warning_code(a, function) ==
    IF a.deprecated THEN << Stmt("deprecation", a.name, << >>) >> ELSE << >>

\* a.convert_code(): the statements that unwrap the argument
convert_code(a) ==
    CASE a.kind = "GEN" ->
           << Stmt(IF a.default # NoDefault THEN "cdef GEN optional objtogen"
                   ELSE IF a.index = 0 THEN "cdef GEN from .g"
                   ELSE "cdef GEN objtogen", a.name, << >>) >>
      [] a.kind = "var" -> << Stmt("cdef long get_var", a.name, << >>) >>
      [] a.kind = "string" -> << Stmt("cdef char* from str", a.name, << >>) >>
      [] a.kind = "prec" -> << Stmt("prec_bits_to_words", a.name, << >>) >>
      [] a.kind = "self" -> << Stmt("cdef PariInstance pari_instance", a.name, << >>) >>
      [] a.kind = "long" -> << >>

\* ret.assign_code("{cname}({callargs})")
assign_code(ret, cname, callargs) ==
    IF ret = "GEN" THEN << Stmt("cdef GEN _ret =", cname, callargs) >>
    ELSE << Stmt("call", cname, callargs) >>

\* ret.return_code()
return_code(ret) ==
    IF ret = "GEN" THEN << Stmt("return pari_instance.new_gen(_ret)", "", << >>) >>
    ELSE << Stmt("pari_instance.clear_stack()", "", << >>) >>

\* get_rest_doc(function): the lines of the documentation of the function
get_rest_doc(function) ==
    << [ of |-> function, line |-> 1, indent |-> 0 ],
       [ of |-> function, line |-> 2, indent |-> 0 ] >>

(***************************************************************************)
(* The content of a file: its banner and the method blocks after it.       *)
(***************************************************************************)
File(banner, blocks) == [ banner |-> banner, blocks |-> blocks ]
NoFile == File("<no file>", << >>)
\* what the canonical files hold before the first run
EarlierGen == File("earlier auto_gen.pxi", << >>)
EarlierInstance == File("earlier auto_instance.pxi", << >>)
gen_banner == "gen_banner"
instance_banner == "instance_banner"

\* doc.replace("\n", "\n        "): every line after the first is indented
IndentDoc(doc) ==
    [ i \in 1..Len(doc) |->
        IF i = 1 THEN doc[i] ELSE [ doc[i] EXCEPT !.indent = @ + 8 ] ]

SeqMap(Op(_), s) == [ i \in 1..Len(s) |-> Op(s[i]) ]

RECURSIVE Flatten(_)
Flatten(ss) == IF ss = << >> THEN << >> ELSE Head(ss) \o Flatten(Tail(ss))

\* write_method without the sig_on() line of line 223
write_method_no_sig_on(function, cname, args, ret, cargs, file, doc) ==
    LET idoc == IndentDoc(doc)
        protoargs == SeqMap(prototype_code, args)
        callargs == SeqMap(call_code, cargs)
        DepOf(a) == deprecation_warning_code(a, function)
        s == [ function |-> function,
               protoargs |-> protoargs,
               doc |-> idoc,
               stmts |-> Flatten(SeqMap(DepOf, args))
                         \o Flatten(SeqMap(convert_code, args))
                         \o assign_code(ret, cname, callargs)
                         \o return_code(ret) ]
    IN  File(file.banner, Append(file.blocks, s))

\* write_method with the sig_on() line before the conversions
write_method_sig_on_first(function, cname, args, ret, cargs, file, doc) ==
    LET idoc == IndentDoc(doc)
        protoargs == SeqMap(prototype_code, args)
        callargs == SeqMap(call_code, cargs)
        DepOf(a) == deprecation_warning_code(a, function)
        s == [ function |-> function,
               protoargs |-> protoargs,
               doc |-> idoc,
               stmts |-> Flatten(SeqMap(DepOf, args))
                         \o << Stmt("sig_on()", "", << >>) >>
                         \o Flatten(SeqMap(convert_code, args))
                         \o assign_code(ret, cname, callargs)
                         \o return_code(ret) ]
    IN  File(file.banner, Append(file.blocks, s))

\* write_method with callargs of line 215 taken from args instead of cargs
write_method_call_from_args(function, cname, args, ret, cargs, file, doc) ==
    LET idoc == IndentDoc(doc)
        protoargs == SeqMap(prototype_code, args)
        callargs == SeqMap(call_code, args)
        DepOf(a) == deprecation_warning_code(a, function)
        s == [ function |-> function,
               protoargs |-> protoargs,
               doc |-> idoc,
               stmts |-> Flatten(SeqMap(DepOf, args))
                         \o Flatten(SeqMap(convert_code, args))
                         \o << Stmt("sig_on()", "", << >>) >>
                         \o assign_code(ret, cname, callargs)
                         \o return_code(ret) ]
    IN  File(file.banner, Append(file.blocks, s))

\* write_method: the text printed to file, as the file's new content
write_method(function, cname, args, ret, cargs, file, doc) ==
    LET idoc == IndentDoc(doc)
        protoargs == SeqMap(prototype_code, args)
        callargs == SeqMap(call_code, cargs)
        DepOf(a) == deprecation_warning_code(a, function)
        s == [ function |-> function,
               protoargs |-> protoargs,
               doc |-> idoc,
               stmts |-> Flatten(SeqMap(DepOf, args))
                         \o Flatten(SeqMap(convert_code, args))
                         \o << Stmt("sig_on()", "", << >>) >>
                         \o assign_code(ret, cname, callargs)
                         \o return_code(ret) ]
    IN  File(file.banner, Append(file.blocks, s))

\* handle_pari_function with the test of line 178 always false
handle_pari_function_never_gen(v, gen, inst) ==
    LET function == v.function
        cname == KwGet(v, "cname", "")
        prototype == KwGet(v, "prototype", << >>)
        help == KwGet(v, "help", << >>)
        p1 == parse_prototype(prototype, help, << >>)
        p2 == parse_prototype(prototype, help, << PariInstanceArgument >>)
    IN  IF ~ p1.ok THEN
            [ gen |-> gen, inst |-> inst, calls |-> << << >> >>, exc |-> "none" ]
        ELSE
            [ gen |-> gen,
              inst |-> write_method(function, cname, p2.args, p2.ret, Tail(p2.args),
                                    inst, get_rest_doc(function)),
              calls |-> << << >>, << PariInstanceArgument >> >>, exc |-> "none" ]

\* handle_pari_function with cargs = args in the else branch of line 186
handle_pari_function_self_in_call(v, gen, inst) ==
    LET function == v.function
        cname == KwGet(v, "cname", "")
        prototype == KwGet(v, "prototype", << >>)
        help == KwGet(v, "help", << >>)
        p1 == parse_prototype(prototype, help, << >>)
        p2 == parse_prototype(prototype, help, << PariInstanceArgument >>)
    IN  IF ~ p1.ok THEN
            [ gen |-> gen, inst |-> inst, calls |-> << << >> >>, exc |-> "none" ]
        ELSE IF Len(p1.args) > 0 /\ IsPariArgumentGEN(p1.args[1]) THEN
            [ gen |-> write_method(function, cname, p1.args, p1.ret, p1.args,
                                   gen, get_rest_doc(function)),
              inst |-> inst,
              calls |-> << << >> >>, exc |-> "none" ]
        ELSE
            [ gen |-> gen,
              inst |-> write_method(function, cname, p2.args, p2.ret, p2.args,
                                    inst, get_rest_doc(function)),
              calls |-> << << >>, << PariInstanceArgument >> >>, exc |-> "none" ]

\* handle_pari_function writing the PariInstance method to both files
handle_pari_function_both_files(v, gen, inst) ==
    LET function == v.function
        cname == KwGet(v, "cname", "")
        prototype == KwGet(v, "prototype", << >>)
        help == KwGet(v, "help", << >>)
        p1 == parse_prototype(prototype, help, << >>)
        p2 == parse_prototype(prototype, help, << PariInstanceArgument >>)
    IN  IF ~ p1.ok THEN
            [ gen |-> gen, inst |-> inst, calls |-> << << >> >>, exc |-> "none" ]
        ELSE IF Len(p1.args) > 0 /\ IsPariArgumentGEN(p1.args[1]) THEN
            [ gen |-> write_method(function, cname, p1.args, p1.ret, p1.args,
                                   gen, get_rest_doc(function)),
              inst |-> inst,
              calls |-> << << >> >>, exc |-> "none" ]
        ELSE
            [ gen |-> write_method(function, cname, p2.args, p2.ret, Tail(p2.args),
                                   gen, get_rest_doc(function)),
              inst |-> write_method(function, cname, p2.args, p2.ret, Tail(p2.args),
                                    inst, get_rest_doc(function)),
              calls |-> << << >>, << PariInstanceArgument >> >>, exc |-> "none" ]

\* handle_pari_function without the try statement of lines 172-175
handle_pari_function_no_try(v, gen, inst) ==
    LET function == v.function
        cname == KwGet(v, "cname", "")
        prototype == KwGet(v, "prototype", << >>)
        help == KwGet(v, "help", << >>)
        p1 == parse_prototype(prototype, help, << >>)
        p2 == parse_prototype(prototype, help, << PariInstanceArgument >>)
    IN  IF ~ p1.ok THEN
            [ gen |-> gen, inst |-> inst, calls |-> << << >> >>,
              exc |-> "NotImplementedError" ]
        ELSE IF Len(p1.args) > 0 /\ IsPariArgumentGEN(p1.args[1]) THEN
            [ gen |-> write_method(function, cname, p1.args, p1.ret, p1.args,
                                   gen, get_rest_doc(function)),
              inst |-> inst,
              calls |-> << << >> >>, exc |-> "none" ]
        ELSE
            [ gen |-> gen,
              inst |-> write_method(function, cname, p2.args, p2.ret, Tail(p2.args),
                                    inst, get_rest_doc(function)),
              calls |-> << << >>, << PariInstanceArgument >> >>, exc |-> "none" ]

\* handle_pari_function(**v) with self.gen_file = gen and self.instance_file
\* = inst: the two files after the call, the parse_prototype calls made, and
\* the exception that leaves the call ("none" when it returns).  Only the
\* first parse_prototype call is inside the try statement.
handle_pari_function(v, gen, inst) ==
    LET function == v.function
        cname == KwGet(v, "cname", "")
        prototype == KwGet(v, "prototype", << >>)
        help == KwGet(v, "help", << >>)
        p1 == parse_prototype(prototype, help, << >>)
        p2 == parse_prototype(prototype, help, << PariInstanceArgument >>)
    IN  IF ~ p1.ok THEN
            [ gen |-> gen, inst |-> inst, calls |-> << << >> >>, exc |-> "none" ]
        ELSE IF Len(p1.args) > 0 /\ IsPariArgumentGEN(p1.args[1]) THEN
            [ gen |-> write_method(function, cname, p1.args, p1.ret, p1.args,
                                   gen, get_rest_doc(function)),
              inst |-> inst,
              calls |-> << << >> >>, exc |-> "none" ]
        ELSE IF ~ p2.ok THEN
            [ gen |-> gen, inst |-> inst,
              calls |-> << << >>, << PariInstanceArgument >> >>,
              exc |-> "NotImplementedError" ]
        ELSE
            [ gen |-> gen,
              inst |-> write_method(function, cname, p2.args, p2.ret, Tail(p2.args),
                                    inst, get_rest_doc(function)),
              calls |-> << << >>, << PariInstanceArgument >> >>, exc |-> "none" ]

\* one entry of sys.stdout
Out(kind, name) == [ kind |-> kind, name |-> name ]

\* the loop body without the can_handle_function test of line 244
loop_body_unfiltered(v, gen, inst, out, calls) ==
    LET h == handle_pari_function(v, gen, inst)
    IN  [ gen |-> h.gen, inst |-> h.inst,
          out |-> Append(out, Out("accepted", v.function)),
          calls |-> h.calls, exc |-> h.exc ]

\* the loop body with a rejection raised as an exception
loop_body_reject_raises(v, gen, inst, out, calls) ==
    IF ~ can_handle_function(v) THEN
        [ gen |-> gen, inst |-> inst, out |-> Append(out, Out("rejected", v.function)),
          calls |-> calls, exc |-> "FilterRejection" ]
    ELSE
        LET h == handle_pari_function(v, gen, inst)
        IN  [ gen |-> h.gen, inst |-> h.inst,
              out |-> Append(out, Out("accepted", v.function)),
              calls |-> h.calls, exc |-> h.exc ]

\* the loop body with line 245 printing the name as line 247 does
loop_body_no_parentheses(v, gen, inst, out, calls) ==
    IF ~ can_handle_function(v) THEN
        [ gen |-> gen, inst |-> inst, out |-> Append(out, Out("accepted", v.function)),
          calls |-> calls, exc |-> "none" ]
    ELSE
        LET h == handle_pari_function(v, gen, inst)
        IN  [ gen |-> h.gen, inst |-> h.inst,
              out |-> Append(out, Out("accepted", v.function)),
              calls |-> h.calls, exc |-> h.exc ]

\* the body of the for loop of lines 243-249 for descriptor v
loop_body(v, gen, inst, out, calls) ==
    IF ~ can_handle_function(v) THEN
        [ gen |-> gen, inst |-> inst, out |-> Append(out, Out("rejected", v.function)),
          calls |-> calls, exc |-> "none" ]
    ELSE
        LET h == handle_pari_function(v, gen, inst)
        IN  [ gen |-> h.gen, inst |-> h.inst,
              out |-> Append(out, Out("accepted", v.function)),
              calls |-> h.calls, exc |-> h.exc ]

(***************************************************************************)
(* sorted(D.values(), key=lambda d: d['function'])                         *)
(***************************************************************************)
\* str < str in Python: lexicographic on the character codes
RECURSIVE StrLess(_, _)
StrLess(a, b) ==
    IF b = << >> THEN FALSE
    ELSE IF a = << >> THEN TRUE
    ELSE IF Head(a) # Head(b) THEN Head(a) < Head(b)
    ELSE StrLess(Tail(a), Tail(b))

\* insert d after the elements whose key is not greater (the sort is stable)
RECURSIVE InsertByName(_, _)
InsertByName(d, s) ==
    IF s = << >> THEN << d >>
    ELSE IF StrLess(d.function, Head(s).function) THEN << d >> \o s
    ELSE << Head(s) >> \o InsertByName(d, Tail(s))

\* the list left in dict order
sorted_not(s) == s

RECURSIVE sorted(_)
sorted(s) ==
    IF s = << >> THEN << >>
    ELSE InsertByName(s[Len(s)], sorted(SubSeq(s, 1, Len(s) - 1)))

(***************************************************************************)
(* The descriptors of pari.desc used as inputs.  A descriptor is the       *)
(* keyword dictionary of one function; a key may be missing.  "help" holds *)
(* the argument names that are read off the help string.                   *)
(***************************************************************************)
Pool ==
    { [ function |-> n_bnfinit, cname |-> "bnfinit0",
        prototype |-> << "G", "D", "0", ",", "L", ",", "D", "G", "p" >>,
        help |-> << "P", "flag", "tech" >>,
        class |-> "basic", section |-> "number_fields" ],
      [ function |-> n_ellmodulareqn, cname |-> "ellmodulareqn",
        prototype |-> << "L", "D", "n", "D", "n" >>,
        help |-> << "N", "x", "y" >>,
        class |-> "basic", section |-> "elliptic_curves" ],
      [ function |-> n_setrand, cname |-> "setrand",
        prototype |-> << "v", "G" >>, help |-> << "n" >>,
        class |-> "basic", section |-> "programming/specific" ],
      [ function |-> n_getrand, cname |-> "getrand",
        prototype |-> << >>, help |-> << >>,
        class |-> "basic", section |-> "programming/specific" ],
      [ function |-> n_apply, cname |-> "apply0",
        prototype |-> << "E", "G" >>, help |-> << "f", "A" >>,
        class |-> "highlevel", section |-> "programming/specific" ],
      [ function |-> n_alias, cname |-> "alias0",
        prototype |-> << "v", "G", "G" >>, help |-> << "newsym", "sym" >>,
        class |-> "basic", section |-> "programming/specific" ],
      [ function |-> n_if, cname |-> "ifpari",
        prototype |-> << "G", "D", "E", "D", "E" >>, help |-> << "a", "seq1", "seq2" >>,
        class |-> "basic", section |-> "programming/control" ],
      [ function |-> n_allocatemem, cname |-> "allocatemem0",
        prototype |-> << "v", "D", "0", ",", "L", "," >>, help |-> << "s" >>,
        class |-> "basic" ],
      [ function |-> n_Str, cname |-> "Str",
        prototype |-> << "s", "*" >>, help |-> << "x" >>,
        class |-> "basic", section |-> "conversions" ],
      [ function |-> n_Pi, cname |-> "mppi",
        prototype |-> << "p" >>, help |-> << >>,
        section |-> "transcendental" ] }

\* the dicts read_pari_desc() may return: keyed by function name, with up to
\* MaxDesc entries
Stores == { S \in SUBSET Pool : Cardinality(S) <= MaxDesc }

\* D.values(): the values of the dict as a list, in the dict's own order
Values(S) ==
    { s \in [ 1..Cardinality(S) -> S ] : \A i, j \in 1..Cardinality(S) : i # j => s[i] # s[j] }

\* the inputs of a direct call of can_handle_function
FilterNames == { n_O, n_alias, n_listcreate, n_bnfinit, n__bnfinit, n_bang,
                 n_if, n_setrand, n_Str, n_a1, n_1a, n_a_b, n_aminus,
                 n_empty, n_eacute, n_Pi }
FilterCnames == { "bnfinit0", "BNFINIT0", "" }
FilterClasses == { "basic", "highlevel", "hard", "unknown", "gp2c" }
FilterSections == { "number_fields", "programming/control", "programming/specific",
                    "unknown" }
Absent == "<absent>"
Opt(k, val) == IF val = Absent THEN << >> ELSE (k :> val)
FilterArgs ==
    { ("function" :> n) @@ Opt("cname", c) @@ Opt("class", k) @@ Opt("section", sec) :
        n \in FilterNames, c \in FilterCnames \cup { Absent },
        k \in FilterClasses \cup { Absent }, sec \in FilterSections \cup { Absent } }

(***************************************************************************)
(* The run of __call__.                                                    *)
(***************************************************************************)
Running == { "start", "open_gen", "open_instance", "loop", "close_instance",
             "rename_gen", "rename_instance" }
Terminal == { "Committed", "Aborted" }

\* a rename that copies block by block and is cut short
os_rename_cut_short(src, dst) ==
    [ banner |-> src.banner,
      blocks |-> IF src.blocks = << >> THEN dst.blocks
                 ELSE SubSeq(src.blocks, 1, Len(src.blocks) - 1) ]

\* os.rename(src, dst): dst holds what src held, in one step
os_rename(src, dst) == src

NoFilterCall == [ function |-> n_empty ]

(***************************************************************************)
(* sage/knots/knot.py: a Knot given by a braid.  The braid is the record   *)
(* of its number of strands (the braid group it lives in) and its Tietze   *)
(* word, a sequence of non-zero integers i and -i for the generator s_i    *)
(* and its inverse.                                                        *)
(***************************************************************************)
abs(i) == IF i < 0 THEN -i ELSE i

sign(i) == IF i > 0 THEN 1 ELSE IF i < 0 THEN -1 ELSE 0

Least(S) == CHOOSE i \in S : \A j \in S : i <= j

\* the generators s_1 .. s_(n-1) of the braid group on n strands and their inverses
Generators(n) == { g \in (1 - n)..(n - 1) : g # 0 }

Braid(n, w) == [ strands |-> n, word |-> w ]

\* B(w) for the braid group B on n strands: every entry must name a generator
InBraidGroup(n, w) == \A i \in 1..Len(w) : w[i] \in Generators(n)

\* where the strand at position p is after the crossing g
StrandAfter(g, p) ==
    IF abs(g) = p THEN p + 1 ELSE IF abs(g) = p - 1 THEN p - 1 ELSE p

\* where the strand that enters the braid at position p leaves it
RECURSIVE StrandThrough(_, _)
StrandThrough(w, p) ==
    IF w = << >> THEN p ELSE StrandThrough(Tail(w), StrandAfter(Head(w), p))

\* the positions met by following the closed braid from position p
RECURSIVE Component(_, _, _)
Component(w, p, seen) ==
    IF p \in seen THEN seen ELSE Component(w, StrandThrough(w, p), seen \cup { p })

\* number of connected components of the closure of the braid w on n strands
number_of_components(n, w) ==
    Cardinality({ Component(w, p, {}) : p \in 1..n })

\* lines 104-107: Knot(data) raises ValueError unless there is one component
IsKnot(n, w) == InBraidGroup(n, w) /\ number_of_components(n, w) = 1

BraidWords(n, len) == UNION { [ 1..k -> Generators(n) ] : k \in 1..len }

\* the knots that are the inputs: braids with a one-component closure
Knots(len) ==
    UNION { { Braid(n, w) : w \in { v \in BraidWords(n, len) : IsKnot(n, v) } }
            : n \in 2..MaxStrands }

\* lines 268-278: the argument of Knot(...) in connected_sum
connected_sum(k1, k2) ==
    LET b1s == k1.strands
        b2s == k2.strands
    IN  Braid(b1s + b2s,
              k1.word
              \o [ j \in 1..Len(k2.word) |-> (abs(k2.word[j]) + b2s) * sign(k2.word[j]) ]
              \o << b1s >>)

\* b[i] of Python, i from 0
At(b, i) == b[i + 1]

\* the test of lines 169 and 175: the strand followed passes through crossing i
Meets(b, i, s) == abs(At(b, i)) = s \/ abs(At(b, i)) = s - 1

\* lines 168-172 only: the search does not start again from crossing 0
find_crossing_no_wrap(b, from, s) ==
    LET ahead == { i \in from..(Len(b) - 1) : Meets(b, i, s) }
    IN  IF ahead # {} THEN Least(ahead) ELSE from

\* lines 167-178: the next crossing on the strand, searched from `from` to
\* the end of the word and then from its start; `from` itself if none is found
find_crossing(b, from, s) ==
    LET ahead  == { i \in from..(Len(b) - 1) : Meets(b, i, s) }
        behind == { i \in 0..(from - 1) : Meets(b, i, s) }
    IN  IF ahead # {} THEN Least(ahead)
        ELSE IF behind # {} THEN Least(behind)
        ELSE from

\* lines 179-181: the slot that the label goes to, odd labels to 2c+1, even to 2c
Slot(c, nl) == 2 * c + (nl % 2)

\* lines 190-192: the sign of the even label
Negates(g, s, t, nl) ==
    /\ \/ abs(g) = s /\ g * t > 0
       \/ abs(g) # s /\ g * t < 0
    /\ nl % 2 = 1

\* lines 199-204: code[i] is the even label of the crossing whose odd label is 2i+1
dt_code_list(lab, N) ==
    [ i \in 1..N |->
        LET js == { j \in 0..(N - 1) : lab[2 * j + 1] = 2 * (i - 1) + 1 }
        IN  IF js = {} THEN 0 ELSE lab[2 * Least(js)] ]

NoKnot == Braid(0, << >>)

\* no Knot method is running
NoKnotCall ==
    /\ K1 = NoKnot
    /\ K2 = NoKnot
    /\ kpc = "none"
    /\ label = << >>
    /\ string = 0
    /\ next_label = 0
    /\ type1 = 0
    /\ crossing = 0
    /\ code = << >>
    /\ result = NoKnot


Init ==
    /\ pc = "start"
    /\ store \in Stores
    /\ D = << >>
    /\ idx = 0
    /\ gen_tmp = NoFile
    /\ instance_tmp = NoFile
    /\ gen_open = FALSE
    /\ instance_open = FALSE
    /\ gen_canon = EarlierGen
    /\ instance_canon = EarlierInstance
    /\ gen_before = EarlierGen
    /\ instance_before = EarlierInstance
    /\ stdout = << >>
    /\ parse_calls = << >>
    /\ raised = "none"
    /\ runs = 1
    /\ f_arg = NoFilterCall
    /\ f_res = "none"
    /\ NoKnotCall

\* lines 234-236: read the descriptors, sort them, announce the run
ReadStore ==
    /\ pc = "start"
    /\ \E values \in Values(store) : D' = sorted(values)
    /\ stdout' = Append(stdout, Out("header", << >>))
    /\ pc' = "open_gen"
    /\ UNCHANGED << store, idx, gen_tmp, instance_tmp, gen_open, instance_open,
                    gen_canon, instance_canon, gen_before, instance_before,
                    parse_calls, raised, runs, f_arg, f_res, knot_vars >>

\* line 238 opening the canonical path itself instead of the .tmp path
OpenGen_canonical_path ==
    /\ pc = "open_gen"
    /\ gen_canon' = File(gen_banner, << >>)
    /\ gen_open' = TRUE
    /\ pc' = "open_instance"
    /\ UNCHANGED << store, D, idx, gen_tmp, instance_tmp, instance_open,
                    instance_canon, gen_before, instance_before, stdout,
                    parse_calls, raised, runs, f_arg, f_res, knot_vars >>

\* lines 238-239
OpenGen ==
    /\ pc = "open_gen"
    /\ gen_tmp' = File(gen_banner, << >>)
    /\ gen_open' = TRUE
    /\ pc' = "open_instance"
    /\ UNCHANGED << store, D, idx, instance_tmp, instance_open,
                    gen_canon, instance_canon, gen_before, instance_before, stdout,
                    parse_calls, raised, runs, f_arg, f_res, knot_vars >>

\* lines 240-241, and the entry into the for loop
OpenInstance ==
    /\ pc = "open_instance"
    /\ instance_tmp' = File(instance_banner, << >>)
    /\ instance_open' = TRUE
    /\ idx' = 1
    /\ pc' = "loop"
    /\ UNCHANGED << store, D, gen_tmp, gen_open,
                    gen_canon, instance_canon, gen_before, instance_before, stdout,
                    parse_calls, raised, runs, f_arg, f_res, knot_vars >>

\* lines 243-249: one iteration of the for loop; an exception that leaves
\* handle_pari_function leaves __call__ too
ProcessDescriptor ==
    /\ pc = "loop"
    /\ idx <= Len(D)
    /\ LET r == loop_body(D[idx], gen_tmp, instance_tmp, stdout, parse_calls)
       IN  /\ gen_tmp' = r.gen
           /\ instance_tmp' = r.inst
           /\ stdout' = r.out
           /\ parse_calls' = r.calls
           /\ IF r.exc = "none"
              THEN idx' = idx + 1 /\ UNCHANGED << pc, raised >>
              ELSE pc' = "Aborted" /\ raised' = r.exc /\ UNCHANGED idx
    /\ UNCHANGED << store, D, gen_open, instance_open,
                    gen_canon, instance_canon, gen_before, instance_before,
                    runs, f_arg, f_res, knot_vars >>

\* lines 250-252: the loop is over
CloseGen ==
    /\ pc = "loop"
    /\ idx > Len(D)
    /\ stdout' = Append(stdout, Out("newline", << >>))
    /\ gen_open' = FALSE
    /\ pc' = "close_instance"
    /\ UNCHANGED << store, D, idx, gen_tmp, instance_tmp, instance_open,
                    gen_canon, instance_canon, gen_before, instance_before,
                    parse_calls, raised, runs, f_arg, f_res, knot_vars >>

\* line 253
CloseInstance ==
    /\ pc = "close_instance"
    /\ instance_open' = FALSE
    /\ pc' = "rename_gen"
    /\ UNCHANGED << store, D, idx, gen_tmp, instance_tmp, gen_open,
                    gen_canon, instance_canon, gen_before, instance_before, stdout,
                    parse_calls, raised, runs, f_arg, f_res, knot_vars >>

\* line 256
RenameGen ==
    /\ pc = "rename_gen"
    /\ gen_canon' = os_rename(gen_tmp, gen_canon)
    /\ gen_tmp' = NoFile
    /\ pc' = "rename_instance"
    /\ UNCHANGED << store, D, idx, instance_tmp, gen_open, instance_open,
                    instance_canon, gen_before, instance_before, stdout,
                    parse_calls, raised, runs, f_arg, f_res, knot_vars >>

\* line 257
RenameInstance ==
    /\ pc = "rename_instance"
    /\ instance_canon' = os_rename(instance_tmp, instance_canon)
    /\ instance_tmp' = NoFile
    /\ pc' = "Committed"
    /\ UNCHANGED << store, D, idx, gen_tmp, gen_open, instance_open,
                    gen_canon, gen_before, instance_before, stdout,
                    parse_calls, raised, runs, f_arg, f_res, knot_vars >>

\* as Raise, with the .tmp file of line 238 opened before pari.desc is read
Raise_after_open_gen ==
    /\ pc \in Running
    /\ raised' = pc
    /\ pc' = "Aborted"
    /\ gen_tmp' = IF pc = "start" THEN File(gen_banner, << >>) ELSE gen_tmp
    /\ gen_open' = IF pc = "start" THEN TRUE ELSE gen_open
    /\ UNCHANGED << store, D, idx, instance_tmp, instance_open,
                    gen_canon, instance_canon, gen_before, instance_before, stdout,
                    parse_calls, runs, f_arg, f_res, knot_vars >>

\* the statement at pc raises (an IOError or OSError of the file system, a
\* failure to read pari.desc, a KeyboardInterrupt): it has no effect and the
\* exception leaves __call__, which catches nothing
Raise ==
    /\ pc \in Running
    /\ raised' = pc
    /\ pc' = "Aborted"
    /\ UNCHANGED << store, D, idx, gen_tmp, instance_tmp, gen_open, instance_open,
                    gen_canon, instance_canon, gen_before, instance_before, stdout,
                    parse_calls, runs, f_arg, f_res, knot_vars >>

\* write_method raises for the descriptor at idx: the name has been
\* reported (line 247), nothing is printed to the file (line 228 not reached)
RaiseInWriteMethod ==
    /\ pc = "loop"
    /\ idx <= Len(D)
    /\ can_handle_function(D[idx])
    /\ parse_prototype(KwGet(D[idx], "prototype", << >>),
                       KwGet(D[idx], "help", << >>), << >>).ok
    /\ stdout' = Append(stdout, Out("accepted", D[idx].function))
    /\ raised' = "write_method"
    /\ pc' = "Aborted"
    /\ UNCHANGED << store, D, idx, gen_tmp, instance_tmp, gen_open, instance_open,
                    gen_canon, instance_canon, gen_before, instance_before,
                    parse_calls, runs, f_arg, f_res, knot_vars >>

\* the generator is run again on the same pari.desc
RunAgain ==
    /\ pc \in Terminal
    /\ runs < MaxRuns
    /\ runs' = runs + 1
    /\ pc' = "start"
    /\ D' = << >>
    /\ idx' = 0
    /\ gen_open' = FALSE
    /\ instance_open' = FALSE
    /\ gen_before' = gen_canon
    /\ instance_before' = instance_canon
    /\ stdout' = << >>
    /\ parse_calls' = << >>
    /\ raised' = "none"
    /\ UNCHANGED << store, gen_tmp, instance_tmp, gen_canon, instance_canon,
                    f_arg, f_res, knot_vars >>

Next ==
    \/ ReadStore
    \/ OpenGen
    \/ OpenInstance
    \/ ProcessDescriptor
    \/ CloseGen
    \/ CloseInstance
    \/ RenameGen
    \/ RenameInstance
    \/ Raise
    \/ RaiseInWriteMethod
    \/ RunAgain

Spec == Init /\ [][Next]_vars

(***************************************************************************)
(* Direct calls of can_handle_function, as in its doctests (lines 73-82).  *)
(***************************************************************************)
FilterInit ==
    /\ pc = "idle"
    /\ store = {}
    /\ D = << >>
    /\ idx = 0
    /\ gen_tmp = NoFile
    /\ instance_tmp = NoFile
    /\ gen_open = FALSE
    /\ instance_open = FALSE
    /\ gen_canon = EarlierGen
    /\ instance_canon = EarlierInstance
    /\ gen_before = EarlierGen
    /\ instance_before = EarlierInstance
    /\ stdout = << >>
    /\ parse_calls = << >>
    /\ raised = "none"
    /\ runs = 0
    /\ f_arg \in FilterArgs
    /\ f_res = "none"
    /\ NoKnotCall

CallCanHandle ==
    /\ pc = "idle"
    /\ f_res = "none"
    /\ f_res' = IF can_handle_function(f_arg) THEN "True" ELSE "False"
    /\ UNCHANGED << pc, store, D, idx, gen_tmp, instance_tmp, gen_open, instance_open,
                    gen_canon, instance_canon, gen_before, instance_before, stdout,
                    parse_calls, raised, runs, f_arg, knot_vars >>

FilterSpec == FilterInit /\ [][CallCanHandle]_vars

(***************************************************************************)
(* Calls of the Knot methods dt_code and connected_sum.                    *)
(***************************************************************************)
KnotInit ==
    /\ pc = "idle"
    /\ store = {}
    /\ D = << >>
    /\ idx = 0
    /\ gen_tmp = NoFile
    /\ instance_tmp = NoFile
    /\ gen_open = FALSE
    /\ instance_open = FALSE
    /\ gen_canon = EarlierGen
    /\ instance_canon = EarlierInstance
    /\ gen_before = EarlierGen
    /\ instance_before = EarlierInstance
    /\ stdout = << >>
    /\ parse_calls = << >>
    /\ raised = "none"
    /\ runs = 0
    /\ f_arg = NoFilterCall
    /\ f_res = "none"
    /\ K1 \in Knots(MaxCrossings)
    /\ K2 = NoKnot
    /\ kpc = "idle"
    /\ label = << >>
    /\ string = 0
    /\ next_label = 0
    /\ type1 = 0
    /\ crossing = 0
    /\ code = << >>
    /\ result = NoKnot

\* lines 231-278: K1.connected_sum(K2)
ConnectedSum ==
    /\ kpc = "idle"
    /\ Len(K1.word) <= MaxSumCrossings
    /\ \E other \in Knots(MaxSumCrossings) :
          /\ K2' = other
          /\ result' = connected_sum(K1, other)
          /\ kpc' = IF IsKnot(result'.strands, result'.word)
                    THEN "sum_returned" ELSE "ValueError"
    /\ UNCHANGED << K1, label, string, next_label, type1, crossing, code >>
    /\ UNCHANGED generator_vars

\* lines 159-165: the start of K1.dt_code()
DtStart ==
    /\ kpc = "idle"
    /\ label' = [ i \in 0..(2 * Len(K1.word) - 1) |-> 0 ]
    /\ string' = 1
    /\ next_label' = 1
    /\ type1' = 0
    /\ crossing' = 0
    /\ kpc' = "dt_while"
    /\ UNCHANGED << K1, K2, code, result >>
    /\ UNCHANGED generator_vars

\* lines 166-198: one turn of the while loop
DtLabel ==
    /\ kpc = "dt_while"
    /\ next_label <= 2 * Len(K1.word)
    /\ LET b    == K1.word
           c    == find_crossing(b, crossing, string)
           slot == Slot(c, next_label)
       IN  IF slot \notin DOMAIN label
           THEN /\ kpc' = "IndexError"
                /\ UNCHANGED << label, string, next_label, type1, crossing >>
           ELSE IF label[slot] = 1
           THEN /\ kpc' = "AssertionError"
                /\ UNCHANGED << label, string, next_label, type1, crossing >>
           ELSE LET g  == At(b, c)
                    l1 == [ label EXCEPT ![slot] = next_label ]
                    t  == IF type1 = 0 THEN (IF g < 0 THEN 1 ELSE -1) ELSE (-1) * type1
                IN  /\ next_label' = next_label + 1
                    /\ type1' = t
                    /\ label' = IF type1 # 0 /\ Negates(g, string, t, next_label + 1)
                                THEN [ l1 EXCEPT ![2 * c] = (-1) * l1[2 * c] ]
                                ELSE l1
                    /\ string' = IF abs(g) = string THEN string + 1 ELSE string - 1
                    /\ crossing' = c + 1
                    /\ kpc' = kpc
    /\ UNCHANGED << K1, K2, code, result >>
    /\ UNCHANGED generator_vars

\* lines 199-205: the loop is over, the code is read off the labels
DtReturn ==
    /\ kpc = "dt_while"
    /\ next_label > 2 * Len(K1.word)
    /\ code' = dt_code_list(label, Len(K1.word))
    /\ kpc' = "dt_returned"
    /\ UNCHANGED << K1, K2, label, string, next_label, type1, crossing, result >>
    /\ UNCHANGED generator_vars

KnotNext ==
    \/ ConnectedSum
    \/ DtStart
    \/ DtLabel
    \/ DtReturn

\* the while loop of dt_code keeps running once it is entered
KnotSpec ==
    KnotInit /\ [][KnotNext]_vars /\ WF_knot_vars(DtLabel) /\ WF_knot_vars(DtReturn)

(***************************************************************************)
(* Vocabulary of the properties.                                           *)
(***************************************************************************)
Parse1(v) == parse_prototype(KwGet(v, "prototype", << >>), KwGet(v, "help", << >>), << >>)
Parse2(v) == parse_prototype(KwGet(v, "prototype", << >>), KwGet(v, "help", << >>),
                             << PariInstanceArgument >>)
\* v is accepted by the filter and its prototype parses
Emitted(v) == can_handle_function(v) /\ Parse1(v).ok
\* the first parsed argument of v is a GEN
GenFirst(v) == Len(Parse1(v).args) > 0 /\ IsPariArgumentGEN(Parse1(v).args[1])
\* the descriptors the loop has dealt with
Processed == IF idx >= 1 THEN SubSeq(D, 1, idx - 1) ELSE << >>
\* the names of the method blocks of a file, in file order
BlockNames(file) == [ i \in 1..Len(file.blocks) |-> file.blocks[i].function ]
NamesIn(file) == { file.blocks[i].function : i \in 1..Len(file.blocks) }
\* the files a run writes or replaces
Files == { gen_tmp, instance_tmp, gen_canon, instance_canon }
\* the step is an iteration of the for loop that returns normally
LoopStep == pc = "loop" /\ pc' = "loop" /\ idx' = idx + 1
LastBlock(file) == file.blocks[Len(file.blocks)]

(***************************************************************************)
(* C1: no file ever holds a method block named after a descriptor that     *)
(* can_handle_function rejects; in particular neither auto_gen.pxi nor     *)
(* auto_instance.pxi does after a complete run.                            *)
(***************************************************************************)
C1_RejectedNeverEmitted ==
    \A v \in store : ~ can_handle_function(v) =>
        \A file \in Files : v.function \notin NamesIn(file)

C1_Witness ==
    /\ pc = "Committed"
    /\ \E v \in store : ~ can_handle_function(v)
    /\ gen_canon.blocks # << >>
    /\ instance_canon.blocks # << >>

(***************************************************************************)
(* C6: in every file the method blocks are in strictly increasing order of *)
(* function name.                                                          *)
(***************************************************************************)
StrictlyIncreasing(names) ==
    \A i, j \in 1..Len(names) : i < j => StrLess(names[i], names[j])

C6_BlocksStrictlyIncreasing ==
    \A file \in Files : StrictlyIncreasing(BlockNames(file))

C6_Witness ==
    /\ pc = "Committed"
    /\ Len(gen_canon.blocks) >= 2
    /\ Len(instance_canon.blocks) >= 1

(***************************************************************************)
(* C8: can_handle_function returns True exactly when the name is not one   *)
(* of O, alias, listcreate, the name is an ASCII letter followed by ASCII  *)
(* letters, digits and underscores only, cname is declared, the class      *)
(* (unknown when absent) is basic or highlevel and the section (unknown    *)
(* when absent) is not programming/control.                                *)
(***************************************************************************)
WellFormedName(name) ==
    /\ name # << >>
    /\ Head(name) \in (65..90) \cup (97..122)
    /\ \A i \in 2..Len(name) : name[i] \in (65..90) \cup (97..122) \cup (48..57) \cup { 95 }

ClassOf(a) == IF "class" \in DOMAIN a THEN a["class"] ELSE "unknown"
SectionOf(a) == IF "section" \in DOMAIN a THEN a["section"] ELSE "unknown"

Eligible(a) ==
    /\ a["function"] \notin { n_O, n_alias, n_listcreate }
    /\ WellFormedName(a["function"])
    /\ "cname" \in DOMAIN a
    /\ a["cname"] \in declared
    /\ ClassOf(a) \in { "basic", "highlevel" }
    /\ SectionOf(a) # "programming/control"

GenOut == IF gen_tmp # NoFile THEN gen_tmp ELSE gen_canon
InstanceOut == IF instance_tmp # NoFile THEN instance_tmp ELSE instance_canon
\* both temporary files have been opened in the current run
Accumulating == idx >= 1

\* the two files after the loop body has run over the list s, from the banners
RECURSIVE RunOver(_)
RunOver(s) ==
    IF s = << >> THEN [ gen |-> File(gen_banner, << >>),
                        inst |-> File(instance_banner, << >>) ]
    ELSE LET before == RunOver(SubSeq(s, 1, Len(s) - 1))
             r == loop_body(s[Len(s)], before.gen, before.inst, << >>, << >>)
         IN  [ gen |-> r.gen, inst |-> r.inst ]

CallOps == { "cdef GEN _ret =", "call" }
\* the statements of a block that call the C function
CallStmts(b) == SelectSeq(b.stmts, LAMBDA st : st.op \in CallOps)
\* the number of blocks of a file with the given name
Count(file, name) == Cardinality({ i \in 1..Len(file.blocks) : file.blocks[i].function = name })

(***************************************************************************)
(* C2: a loop iteration for an accepted descriptor whose prototype parses  *)
(* with a GEN as first argument appends one method to the gen file and     *)
(* leaves the PariInstance file alone; the method's first parameter is     *)
(* that GEN argument, it has no self parameter, and parse_prototype was    *)
(* called once, without initial arguments.                                 *)
(***************************************************************************)
C2_GenFirstToGenFile ==
    [][ (LoopStep /\ Emitted(D[idx]) /\ GenFirst(D[idx])) =>
          /\ instance_tmp' = instance_tmp
          /\ Len(gen_tmp'.blocks) = Len(gen_tmp.blocks) + 1
          /\ SubSeq(gen_tmp'.blocks, 1, Len(gen_tmp.blocks)) = gen_tmp.blocks
          /\ LET b == LastBlock(gen_tmp')
                 args == Parse1(D[idx]).args
             IN  /\ b.function = D[idx].function
                 /\ b.protoargs[1] = prototype_code(args[1])
                 /\ Len(b.protoargs) = Len(args)
                 /\ \A i \in 1..Len(b.protoargs) : b.protoargs[i].name # "self"
          /\ parse_calls' = << << >> >> ]_vars

C2_Witness ==
    /\ pc = "loop"
    /\ idx >= 2
    /\ Emitted(D[idx - 1])
    /\ GenFirst(D[idx - 1])
    /\ Len(gen_tmp.blocks) >= 1
    /\ LastBlock(gen_tmp).function = D[idx - 1].function

(***************************************************************************)
(* C3: a loop iteration for an accepted descriptor whose prototype parses  *)
(* without a GEN as first argument (or without arguments) appends one      *)
(* method to the PariInstance file and leaves the gen file alone; the      *)
(* method's first parameter is self, and the C call gets the reparsed      *)
(* arguments without the first one, so never self.                         *)
(***************************************************************************)
C3_OtherToInstanceFile ==
    [][ (LoopStep /\ Emitted(D[idx]) /\ ~ GenFirst(D[idx])) =>
          /\ gen_tmp' = gen_tmp
          /\ Len(instance_tmp'.blocks) = Len(instance_tmp.blocks) + 1
          /\ SubSeq(instance_tmp'.blocks, 1, Len(instance_tmp.blocks)) = instance_tmp.blocks
          /\ LET b == LastBlock(instance_tmp')
                 args == Parse2(D[idx]).args
             IN  /\ b.function = D[idx].function
                 /\ b.protoargs[1] = prototype_code(PariInstanceArgument)
                 /\ b.protoargs[1].name = "self"
                 /\ Len(b.protoargs) = Len(Parse1(D[idx]).args) + 1
                 /\ Len(CallStmts(b)) = 1
                 /\ CallStmts(b)[1].args = SeqMap(call_code, Tail(args))
                 /\ Len(CallStmts(b)[1].args) = Len(b.protoargs) - 1
                 /\ \A i \in 1..Len(CallStmts(b)[1].args) :
                        CallStmts(b)[1].args[i] # "self" ]_vars

C3_Witness ==
    /\ pc = "loop"
    /\ idx >= 3
    /\ Emitted(D[idx - 1]) /\ ~ GenFirst(D[idx - 1]) /\ Parse1(D[idx - 1]).args = << >>
    /\ Emitted(D[idx - 2]) /\ ~ GenFirst(D[idx - 2]) /\ Parse1(D[idx - 2]).args # << >>
    /\ Len(instance_tmp.blocks) >= 2
    /\ LastBlock(instance_tmp).function = D[idx - 1].function

(***************************************************************************)
(* C4: once the loop is over, each canonical file holds either what it     *)
(* held when the run started or the complete new content of its class,     *)
(* whatever happens to the run from there on.                              *)
(***************************************************************************)
ProcessingOver == Accumulating /\ idx > Len(D)

C4_CanonicalOldOrNew ==
    ProcessingOver =>
        /\ gen_canon \in { gen_before, RunOver(D).gen }
        /\ instance_canon \in { instance_before, RunOver(D).inst }

C4_Witness ==
    /\ pc = "Aborted"
    /\ raised = "rename_instance"
    /\ runs = 1
    /\ gen_canon = RunOver(D).gen
    /\ Len(gen_canon.blocks) >= 2
    /\ instance_canon = instance_before

(***************************************************************************)
(* C5: a run that ends Aborted by an exception raised in the loop or in    *)
(* the closes and renames after it leaves both canonical files as they     *)
(* were when the run started.                                              *)
(***************************************************************************)
C5_AbortLeavesCanonicalFiles ==
    (pc = "Aborted" /\ raised \in { "loop", "write_method", "NotImplementedError",
                                    "close_instance", "rename_gen", "rename_instance" }) =>
        /\ gen_canon = gen_before
        /\ instance_canon = instance_before

(***************************************************************************)
(* C7: every processed descriptor that is accepted and parses has exactly  *)
(* one method block, in exactly one of the two files of the run; no name   *)
(* is in both files and no name is twice in one file.                      *)
(***************************************************************************)
C7_OneBlockInOneFile ==
    Accumulating =>
        /\ \A i \in 1..Len(Processed) :
              Emitted(Processed[i]) =>
                Count(GenOut, Processed[i].function)
                  + Count(InstanceOut, Processed[i].function) = 1
        /\ NamesIn(GenOut) \cap NamesIn(InstanceOut) = {}
        /\ Cardinality(NamesIn(GenOut)) = Len(GenOut.blocks)
        /\ Cardinality(NamesIn(InstanceOut)) = Len(InstanceOut.blocks)

C7_Witness ==
    /\ pc = "close_instance"
    /\ Len(D) = MaxDesc
    /\ \A i \in 1..Len(D) : Emitted(D[i])
    /\ gen_tmp.blocks # << >>
    /\ instance_tmp.blocks # << >>

(***************************************************************************)
(* C9: an unsupported prototype code never ends the run, and the two files *)
(* are at every moment what they would be had the accepted descriptors     *)
(* whose prototype does not parse been absent from the list.               *)
(***************************************************************************)
ParseFails(v) == can_handle_function(v) /\ ~ Parse1(v).ok
WithoutParseFailures(s) == SelectSeq(s, LAMBDA v : ~ ParseFails(v))

C9_ParseErrorSkipsOnly ==
    /\ raised # "NotImplementedError"
    /\ Accumulating =>
          /\ GenOut = RunOver(WithoutParseFailures(Processed)).gen
          /\ InstanceOut = RunOver(WithoutParseFailures(Processed)).inst

C9_Witness ==
    /\ pc = "Committed"
    /\ Len(D) >= 3
    /\ ParseFails(D[2])
    /\ Emitted(D[1])
    /\ Emitted(D[3])
    /\ Count(GenOut, D[2].function) + Count(InstanceOut, D[2].function) = 0

(***************************************************************************)
(* C10: the setrand descriptor (prototype vG) gives a method setrand(n)    *)
(* of class gen: its one parameter is the GEN n, its statements are the    *)
(* conversion of n, sig_on(), the call setrand(_n) and the stack clear,    *)
(* and it returns nothing; the PariInstance file gets no setrand method.   *)
(***************************************************************************)
SetrandDescriptor ==
    [ function |-> n_setrand, cname |-> "setrand",
      prototype |-> << "v", "G" >>, help |-> << "n" >>,
      class |-> "basic", section |-> "programming/specific" ]

SetrandProcessed ==
    /\ Accumulating
    /\ \E i \in 1..Len(Processed) : Processed[i] = SetrandDescriptor

SetrandBody(b) ==
    /\ b.function = n_setrand
    /\ \E i \in 1..Len(b.stmts) : b.stmts[i] = Stmt("sig_on()", "", << >>)
    /\ CallStmts(b) = << Stmt("call", "setrand", << "_n" >>) >>
    /\ b.stmts[Len(b.stmts)] = Stmt("pari_instance.clear_stack()", "", << >>)
    /\ \A i \in 1..Len(b.stmts) : b.stmts[i].op # "return pari_instance.new_gen(_ret)"

C10_SetrandIsGenMethod ==
    SetrandProcessed =>
        /\ Count(GenOut, n_setrand) = 1
        /\ Count(InstanceOut, n_setrand) = 0
        /\ \A i \in 1..Len(GenOut.blocks) :
              GenOut.blocks[i].function = n_setrand =>
                /\ SetrandBody(GenOut.blocks[i])
                /\ GenOut.blocks[i].protoargs =
                      << [ ctype |-> "", name |-> "n", default |-> "" ] >>
                /\ GenOut.blocks[i].stmts =
                      << Stmt("cdef GEN from .g", "n", << >>),
                         Stmt("sig_on()", "", << >>),
                         Stmt("call", "setrand", << "_n" >>),
                         Stmt("pari_instance.clear_stack()", "", << >>) >>

C10_Witness ==
    /\ pc = "Committed"
    /\ SetrandProcessed
    /\ Count(gen_canon, n_setrand) = 1

\* the claim as stated: the setrand method is a method of PariInstance
C10_SetrandIsInstanceMethod ==
    SetrandProcessed =>
        \E i \in 1..Len(InstanceOut.blocks) : SetrandBody(InstanceOut.blocks[i])

(***************************************************************************)
(* C11: the statements of every method block are, in this order: the       *)
(* deprecation notices, in argument order; the conversions, in argument    *)
(* order; one sig_on(); the call of cname with the call arguments; the     *)
(* result statement.  The block has its signature and its documentation,   *)
(* and exactly one sig_on(), after every conversion and before the call.   *)
(***************************************************************************)
ConvertOps == { "cdef GEN from .g", "cdef GEN objtogen", "cdef GEN optional objtogen",
                "cdef long get_var", "cdef char* from str", "prec_bits_to_words",
                "cdef PariInstance pari_instance" }
ResultOps == { "return pari_instance.new_gen(_ret)", "pari_instance.clear_stack()" }

\* the place of a statement in the fixed order
Phase(st) == CASE st.op = "deprecation" -> 1
               [] st.op \in ConvertOps -> 2
               [] st.op = "sig_on()" -> 3
               [] st.op \in CallOps -> 4
               [] st.op \in ResultOps -> 5
               [] OTHER -> 0

\* the position in the signature of the parameter a statement is about
ParamIndex(b, st) ==
    IF \E i \in 1..Len(b.protoargs) : b.protoargs[i].name = st.a
    THEN CHOOSE i \in 1..Len(b.protoargs) : b.protoargs[i].name = st.a
    ELSE 0

InPhase(b, ph) == { i \in 1..Len(b.stmts) : Phase(b.stmts[i]) = ph }

\* the descriptor a block was written for
DescriptorOf(b) == CHOOSE v \in store : v.function = b.function

BlockInOrder(b) ==
    /\ b.protoargs = SeqMap(prototype_code,
                            IF GenFirst(DescriptorOf(b)) THEN Parse1(DescriptorOf(b)).args
                            ELSE Parse2(DescriptorOf(b)).args)
    /\ b.doc = IndentDoc(get_rest_doc(b.function))
    /\ \A i \in 1..Len(b.stmts) : Phase(b.stmts[i]) \in 1..5
    /\ \A i, j \in 1..Len(b.stmts) : i < j => Phase(b.stmts[i]) <= Phase(b.stmts[j])
    /\ \A ph \in { 1, 2 } : \A i, j \in InPhase(b, ph) :
          /\ ParamIndex(b, b.stmts[i]) >= 1
          /\ i < j => ParamIndex(b, b.stmts[i]) < ParamIndex(b, b.stmts[j])
    /\ Cardinality(InPhase(b, 3)) = 1
    /\ Cardinality(InPhase(b, 4)) = 1
    /\ Cardinality(InPhase(b, 5)) = 1
    /\ \A i \in InPhase(b, 4) : b.stmts[i].a = KwGet(DescriptorOf(b), "cname", "")

C11_StatementOrder ==
    \A file \in Files : \A i \in 1..Len(file.blocks) : BlockInOrder(file.blocks[i])

C11_Witness ==
    /\ pc = "Committed"
    /\ \E i \in 1..Len(instance_canon.blocks) :
          /\ InPhase(instance_canon.blocks[i], 1) # {}
          /\ InPhase(instance_canon.blocks[i], 2) # {}
    /\ \E i \in 1..Len(gen_canon.blocks) :
          Cardinality(InPhase(gen_canon.blocks[i], 2)) >= 3

(***************************************************************************)
(* C12: the committed content of both files is a function of pari.desc     *)
(* alone: a committed run after an earlier committed run on the same       *)
(* pari.desc leaves both canonical files as it found them, whatever the    *)
(* dict order of either run and whatever the files held before.            *)
(***************************************************************************)
\* the content a run over the store S commits, by one fixed dict order
ContentFor(S) == RunOver(sorted(CHOOSE values \in Values(S) : TRUE))
\* an earlier run on this pari.desc has committed
CommittedBefore == instance_before # EarlierInstance

C12_RunIsIdempotent ==
    pc = "Committed" =>
        /\ gen_canon = ContentFor(store).gen
        /\ instance_canon = ContentFor(store).inst
        /\ CommittedBefore => /\ gen_canon = gen_before
                              /\ instance_canon = instance_before

C12_Witness ==
    /\ pc = "Committed"
    /\ runs = 2
    /\ CommittedBefore
    /\ Len(gen_canon.blocks) >= 2
    /\ Len(instance_canon.blocks) >= 1
    /\ gen_canon = gen_before
    /\ instance_canon = instance_before

(***************************************************************************)
(* C13: every run ends, Committed or Aborted; it is Aborted only by an     *)
(* exception that a statement of __call__ or write_method raises, never by *)
(* a rejected descriptor or an unsupported prototype; and a Committed run  *)
(* has put the newly generated content into both canonical files.          *)
(***************************************************************************)
\* the statement that follows each statement of __call__
After(p) == CASE p = "start" -> "open_gen"
              [] p = "open_gen" -> "open_instance"
              [] p = "open_instance" -> "loop"
              [] p = "loop" -> "close_instance"
              [] p = "close_instance" -> "rename_gen"
              [] p = "rename_gen" -> "rename_instance"
              [] p = "rename_instance" -> "Committed"

\* a statement outside the for loop completes and control moves on
StatementRuns ==
    /\ pc \in Running
    /\ pc = "loop" => idx > Len(D)
    /\ pc' = After(pc)

\* the for loop goes on to its next descriptor
LoopIteration == pc = "loop" /\ idx <= Len(D) /\ idx' = idx + 1 /\ pc' = pc

\* the interpreter executes the next statement of a run that has not ended:
\* __call__ is single-threaded and waits for nothing
FairSpec ==
    Init /\ [][Next]_vars /\ WF_pc(StatementRuns) /\ WF_<< pc, idx >>(LoopIteration)

C13_RunEnds ==
    /\ (pc = "start") ~> (pc \in Terminal)
    /\ [](pc = "Aborted" => raised \in Running \cup { "write_method" })
    /\ [](pc = "Committed" =>
            /\ raised = "none"
            /\ gen_canon = RunOver(D).gen
            /\ instance_canon = RunOver(D).inst)

C13_Witness ==
    /\ pc = "Committed"
    /\ Cardinality(store) = MaxDesc
    /\ \A v \in store : ~ Emitted(v)
    /\ \E v \in store : ~ can_handle_function(v)
    /\ \E v \in store : ParseFails(v)
    /\ gen_canon = File(gen_banner, << >>)
    /\ instance_canon = File(instance_banner, << >>)

(***************************************************************************)
(* C14: for every pair of knots K1, K2, of any strand counts b1s and b2s,  *)
(* K1.connected_sum(K2) returns a knot: every entry of the Tietze word it  *)
(* builds names a generator of the braid group on b1s + b2s strands, and   *)
(* the closure of that braid has one component, so Knot() does not raise.  *)
(***************************************************************************)
SumOver == kpc \in { "sum_returned", "ValueError" }

C14_ConnectedSumIsKnot ==
    SumOver =>
        /\ kpc = "sum_returned"
        /\ result.strands = K1.strands + K2.strands
        /\ InBraidGroup(result.strands, result.word)
        /\ number_of_components(result.strands, result.word) = 1

\* the cases of C14 taken apart: the strand counts of the two knots
C14_EqualStrandsIsKnot ==
    (SumOver /\ K1.strands = K2.strands) => kpc = "sum_returned"

C14_FewerStrandsFirst ==
    /\ SumOver
    /\ K1.strands < K2.strands
    /\ ~ InBraidGroup(result.strands, result.word)

C14_MoreStrandsFirst ==
    /\ SumOver
    /\ K1.strands > K2.strands
    /\ InBraidGroup(result.strands, result.word)
    /\ number_of_components(result.strands, result.word) > 1

(***************************************************************************)
(* C15: the commit is ordered.  Both accumulators are completely written   *)
(* and closed before the first rename, no canonical file changes while a   *)
(* descriptor is still to be processed, and auto_gen.pxi is renamed before *)
(* auto_instance.pxi.                                                      *)
(***************************************************************************)
RenamesGen == pc = "rename_gen" /\ pc' = "rename_instance"

RenamesInstance == pc = "rename_instance" /\ pc' = "Committed"

AccumulatorsClosed == ~ gen_open /\ ~ instance_open /\ idx = Len(D) + 1

C15_CommitOrder ==
    [][ /\ (gen_canon' # gen_canon \/ instance_canon' # instance_canon) =>
              (RenamesGen \/ RenamesInstance)
        /\ RenamesGen =>
              /\ AccumulatorsClosed
              /\ gen_tmp = RunOver(D).gen
              /\ instance_tmp = RunOver(D).inst
              /\ gen_canon' = gen_tmp
              /\ instance_canon' = instance_before
        /\ RenamesInstance =>
              /\ AccumulatorsClosed
              /\ gen_canon = RunOver(D).gen
              /\ instance_tmp = RunOver(D).inst
              /\ instance_canon' = instance_tmp
              /\ gen_canon' = gen_canon
      ]_vars

\* between the two renames of a first run that wrote methods to both files
C15_Witness ==
    /\ pc = "rename_instance"
    /\ runs = 1
    /\ AccumulatorsClosed
    /\ Len(gen_canon.blocks) >= 1
    /\ gen_canon = RunOver(D).gen
    /\ instance_canon = EarlierInstance
    /\ Len(instance_tmp.blocks) >= 1

(***************************************************************************)
(* C16: while the accumulators are opened and while the descriptors are    *)
(* processed no canonical file is written: the banner and the method       *)
(* blocks go to the .tmp files, and each canonical file holds what it held *)
(* when the run started until the run renames over it.                     *)
(***************************************************************************)
Open == pc \in { "open_gen", "open_instance" }

Processing == pc = "loop"

C16_CanonicalUntouchedUntilRename ==
    /\ [][ (Open \/ Processing) =>
              /\ gen_canon' = gen_canon
              /\ instance_canon' = instance_canon ]_vars
    /\ [](pc \in Running \ { "rename_instance" } =>
              /\ gen_canon = gen_before
              /\ instance_canon = instance_before)
    /\ [](pc = "rename_instance" => instance_canon = instance_before)

\* a second run in the middle of its loop: both .tmp files have new blocks,
\* both canonical files still hold the blocks of the first run
C16_Witness ==
    /\ Processing
    /\ runs = 2
    /\ idx <= Len(D)
    /\ Len(gen_tmp.blocks) >= 1
    /\ Len(instance_tmp.blocks) >= 1
    /\ Len(gen_canon.blocks) > Len(gen_tmp.blocks)
    /\ gen_canon = gen_before
    /\ instance_canon = instance_before

(***************************************************************************)
(* C17: when read_pari_desc fails the run ends Aborted before the loop:    *)
(* neither .tmp file was opened or written, no descriptor was processed    *)
(* or reported, and both canonical files are unchanged.                    *)
(***************************************************************************)
StoreFailure == pc = "Aborted" /\ raised = "start"

C17_StoreFailureAbortsFirst ==
    /\ [][ (pc = "start" /\ pc' = "Aborted") =>
              /\ raised' = "start"
              /\ UNCHANGED << gen_tmp, instance_tmp, gen_open, instance_open,
                              gen_canon, instance_canon >> ]_vars
    /\ [](StoreFailure =>
              /\ ~ gen_open
              /\ ~ instance_open
              /\ D = << >>
              /\ idx = 0
              /\ stdout = << >>
              /\ parse_calls = << >>
              /\ gen_canon = gen_before
              /\ instance_canon = instance_before)

\* the second run fails to read pari.desc after the first run committed methods
C17_Witness ==
    /\ StoreFailure
    /\ runs = 2
    /\ Len(gen_canon.blocks) >= 1
    /\ Len(instance_canon.blocks) >= 1
    /\ gen_tmp = NoFile
    /\ instance_tmp = NoFile

(***************************************************************************)
(* C18: the signature, the deprecation notices and the conversions of a    *)
(* method are made from the full argument list, the receiver at position 0 *)
(* included; the call of the C function is made from the call arguments    *)
(* only, which are the full list for a method of gen and the full list     *)
(* without its leading self for a method of PariInstance, in the order     *)
(* of the full list.                                                       *)
(***************************************************************************)
FullArgs(v) == IF GenFirst(v) THEN Parse1(v).args ELSE Parse2(v).args

\* the full list without position 0
WithoutReceiver(args) == [ i \in 1..(Len(args) - 1) |-> args[i + 1] ]

StmtsOf(b, ops) == SelectSeq(b.stmts, LAMBDA st : st.op \in ops)

ArgsFor(b, in_gen_file) ==
    LET v == DescriptorOf(b)
        args == FullArgs(v)
        callargs == IF in_gen_file THEN args ELSE WithoutReceiver(args)
        deps == SelectSeq(args, LAMBDA a : a.deprecated)
        call == CallStmts(b)
    IN  /\ in_gen_file = GenFirst(v)
        /\ Len(args) >= 1
        /\ args[1].kind = IF in_gen_file THEN "GEN" ELSE "self"
        \* signature
        /\ Len(b.protoargs) = Len(args)
        /\ \A i \in 1..Len(args) : b.protoargs[i] = prototype_code(args[i])
        \* deprecation notices
        /\ LET st == StmtsOf(b, { "deprecation" })
           IN  /\ Len(st) = Len(deps)
               /\ \A i \in 1..Len(st) : st[i].a = deps[i].name
        \* conversions, the one of the receiver first
        /\ StmtsOf(b, ConvertOps) = Flatten(SeqMap(convert_code, args))
        /\ StmtsOf(b, ConvertOps)[1].a = args[1].name
        \* the call
        /\ Len(call) = 1
        /\ Len(call[1].args) = Len(callargs)
        /\ \A i \in 1..Len(callargs) : call[1].args[i] = call_code(callargs[i])
        /\ in_gen_file => call[1].args[1] = call_code(args[1])
        /\ ~ in_gen_file => Len(call[1].args) = Len(b.protoargs) - 1
                            /\ \A i \in 1..Len(call[1].args) : call[1].args[i] # "self"

C18_ArgumentLists ==
    /\ \A file \in { gen_tmp, gen_canon } :
          \A i \in 1..Len(file.blocks) : ArgsFor(file.blocks[i], TRUE)
    /\ \A file \in { instance_tmp, instance_canon } :
          \A i \in 1..Len(file.blocks) : ArgsFor(file.blocks[i], FALSE)

\* committed: a method of gen called with two or more arguments, and a method
\* of PariInstance with a deprecated argument and one with two call arguments
C18_Witness ==
    /\ pc = "Committed"
    /\ \E i \in 1..Len(gen_canon.blocks) :
          Len(CallStmts(gen_canon.blocks[i])[1].args) >= 2
    /\ \E i \in 1..Len(instance_canon.blocks) :
          StmtsOf(instance_canon.blocks[i], { "deprecation" }) # << >>
    /\ \E i \in 1..Len(instance_canon.blocks) :
          Len(CallStmts(instance_canon.blocks[i])[1].args) >= 2

(***************************************************************************)
(* C19: the loop reports each descriptor once on sys.stdout, in ascending  *)
(* order of the names: in parentheses when can_handle_function rejects it  *)
(* and plainly otherwise.  A method block is written only for a name that  *)
(* has been reported plainly, and no name reported in parentheses has a    *)
(* method block.                                                           *)
(***************************************************************************)
Reports == SelectSeq(stdout, LAMBDA o : o.kind \in { "accepted", "rejected" })

Reported(kind) == { Reports[i].name : i \in { j \in 1..Len(Reports) : Reports[j].kind = kind } }

\* the exception left the loop body after line 247 had reported the name
RaisedAfterReport == pc = "Aborted" /\ raised \in { "write_method", "NotImplementedError" }

\* the files of the current run that hold its method blocks
RunFiles ==
    IF pc = "rename_instance" THEN { gen_canon, instance_tmp }
    ELSE IF pc = "Committed" THEN { gen_canon, instance_canon }
    ELSE { gen_tmp, instance_tmp }

C19_ProgressReports ==
    /\ [](Accumulating =>
            /\ Len(Reports) = IF RaisedAfterReport THEN idx ELSE idx - 1
            /\ \A i \in 1..Len(Reports) :
                  /\ Reports[i].name = D[i].function
                  /\ Reports[i].kind = "rejected" <=> ~ can_handle_function(D[i])
                  /\ Reports[i].kind = "accepted" <=> can_handle_function(D[i])
            /\ \A i, j \in 1..Len(Reports) :
                  i < j => StrLess(Reports[i].name, Reports[j].name)
            /\ \A file \in RunFiles :
                  /\ NamesIn(file) \subseteq Reported("accepted")
                  /\ NamesIn(file) \cap Reported("rejected") = {})
    /\ [][ (pc = "loop" /\ (gen_tmp' # gen_tmp \/ instance_tmp' # instance_tmp)) =>
              stdout' = Append(stdout, Out("accepted", D[idx].function)) ]_vars

\* a complete run that reported one name in parentheses, one plainly with
\* a method block and one plainly without (its prototype does not parse)
C19_Witness ==
    /\ pc = "Committed"
    /\ Len(Reports) = MaxDesc
    /\ Reported("rejected") # {}
    /\ \E file \in RunFiles : NamesIn(file) # {}
    /\ \E name \in Reported("accepted") : \A file \in RunFiles : name \notin NamesIn(file)

\* the name was reported and the exception of write_method left no block
C19_ReportedBeforeWrite ==
    /\ RaisedAfterReport
    /\ Reports[Len(Reports)] = Out("accepted", D[idx].function)
    /\ \A file \in RunFiles : D[idx].function \notin NamesIn(file)

(***************************************************************************)
(* C20: for a knot given by a braid word of N >= 1 crossings, dt_code ends *)
(* after exactly 2N turns of its loop.  Every turn puts its label into a   *)
(* slot that is still empty, so every crossing gets one odd and one even   *)
(* label and the assertion "invalid knot" never fails.  The returned list  *)
(* has N entries, all even and non-zero, and their absolute values are     *)
(* 2, 4, ..., 2N, each once.                                               *)
(***************************************************************************)
Crossings == Len(K1.word)

DtRunning == kpc \in { "dt_while", "dt_returned", "AssertionError", "IndexError" }

\* the turn hands out next_label: one slot changes, it was empty, it has the
\* parity of the label, and it holds the label with one of the two signs
LabelsEmptySlot ==
    (kpc = "dt_while" /\ next_label' = next_label + 1) =>
        \E slot \in DOMAIN label :
            /\ label[slot] = 0
            /\ abs(label'[slot]) = next_label
            /\ slot % 2 = next_label % 2
            /\ \A other \in DOMAIN label \ { slot } : label'[other] = label[other]

C20_DtCode ==
    /\ (kpc = "dt_while") ~> (kpc = "dt_returned")
    /\ [][LabelsEmptySlot]_vars
    /\ [](DtRunning =>
            /\ kpc \notin { "AssertionError", "IndexError" }
            /\ next_label \in 1..(2 * Crossings + 1))
    /\ [](kpc = "dt_returned" =>
            /\ Crossings >= 1
            /\ next_label = 2 * Crossings + 1
            /\ \A c \in 0..(Crossings - 1) :
                  /\ label[2 * c + 1] % 2 = 1
                  /\ label[2 * c] # 0 /\ label[2 * c] % 2 = 0
            /\ { abs(label[slot]) : slot \in DOMAIN label } = 1..(2 * Crossings)
            /\ Len(code) = Crossings
            /\ \A i \in 1..Crossings : code[i] # 0 /\ code[i] % 2 = 0
            /\ { abs(code[i]) : i \in 1..Crossings } = { 2 * i : i \in 1..Crossings })

\* the doctest of lines 151-154
C20_Witness ==
    /\ kpc = "dt_returned"
    /\ K1.word = << 1, 2, 1, 2 >>
    /\ next_label = 9
    /\ code = << 4, -6, 8, -2 >>

====
